---- MODULE Spec2Model ----
(***************************************************************************)
(* orb-ui: the Vapi adapter (src/src/adapters/vapi/index.ts, the version   *)
(* with volume normalisation and state debouncing, lines 146-362).         *)
(*                                                                         *)
(* One Vapi client and one adapter created on it.  Every call of           *)
(* adapter.subscribe is a session; a session's closure holds lastEmitted,  *)
(* its seven listeners, its start() wrapper and its originalStart.  The    *)
(* module-level variables emaVol and stateDebounceTimer are shared by all  *)
(* sessions, as in the source.                                             *)
(*                                                                         *)
(* Volumes are fixed-point numbers in units of 1/SCALE; time is counted in *)
(* milliseconds and advances in steps of TickMs.                           *)
(*                                                                         *)
(* The VoiceOrb component (src/src/components/VoiceOrb/VoiceOrb.tsx) is    *)
(* modelled beside the adapter, with a specification of its own; so is the *)
(* volume conditioner normalizeVapiVolume taken alone, run on drawn priors *)
(* and samples, and so is the circle theme with its five render-rate       *)
(* strategies (src/unnamed/part_000; strategy 2 is the theme of            *)
(* src/src/themes/circle/CircleTheme.tsx).  The theme's scale is in units  *)
(* of 1/SCALE, its glow in units of 1/SCALE px, and each product is        *)
(* rounded to the nearest unit, as floating point rounds to the nearest    *)
(* representable value.  The theme's colour is left out.                   *)
(***************************************************************************)
EXTENDS Integers, Sequences, FiniteSets, TLC

\* ------------------------------------------------------------------ bounds
MaxSessions == 2
MaxVolumeEvents == 1
MaxUnitEvents == 2
MaxStreams == 2
TickMs == 175
MaxVolumeStep == 2
MaxRawStep == 12
MaxFeed == 5
MaxPropChanges == 2
MaxBarFrames == 2
SettleFrames == 80

\* --------------------------------------------------------- program constants
SCALE == 1000
NOISE_FLOOR == 120
ATTACK_PCT == 65
RELEASE_PCT == 12
DEBOUNCE_MS == 350

Sessions == 1..MaxSessions
Streams == 1..MaxStreams
NULL == 0
ORIGINAL == 0

OrbState == {"idle", "connecting", "listening", "thinking", "speaking", "error", "disconnected"}

\* Raw provider volume samples: one below 0 and one above 1.
RawSamples == {0 - 500, 1500}

\* The shapes of provider messages the onMessage filter distinguishes.
Messages ==
  { [type |-> "transcript", transcriptType |-> "final", role |-> "user"],
    [type |-> "transcript", transcriptType |-> "partial", role |-> "user"],
    [type |-> "transcript", transcriptType |-> "final", role |-> "assistant"],
    [type |-> "other", transcriptType |-> "final", role |-> "user"] }

VARIABLES
  subscribed,          \* session -> "none" | "active" | "closed" (unsubscribe invoked)
  lastEmitted,         \* session -> OrbState, the emitter closure's lastEmitted
  listeners,           \* the client's listeners, in registration order
  clientStart,         \* client.start: ORIGINAL or the wrapper of a session
  originalStart,       \* session -> the client.start it bound when subscribing
  stateDebounceTimer,  \* module-level timer handle, NULL when none
  timers,              \* the host's pending timeouts
  emaVol,              \* module-level smoothed volume
  volumeEvents,        \* volume-level events since emaVol was last 0
  latestAudioStream,   \* the adapter's captured stream, NULL when none
  trackState,          \* stream -> "none" | "live" | "ended"
  calls,               \* the callbacks and timer calls made by the last step
  op                   \* the operation or event the last step was

\* The adapter's and the client's state.
adapterVars == <<subscribed, lastEmitted, listeners, clientStart, originalStart,
                 stateDebounceTimer, timers, emaVol, volumeEvents,
                 latestAudioStream, trackState, calls, op>>

VARIABLES
  props,               \* VoiceOrb's props: state, volume (<<>> when not given), adapter
  adapterState,        \* VoiceOrb's useState('idle')
  adapterVolume,       \* VoiceOrb's useState(0)
  themeProps,          \* the state and volume the last render handed to the theme
  reported             \* the last state and volume the adapter reported (<<>> when none)

orbVars == <<props, adapterState, adapterVolume, themeProps, reported>>

VARIABLES
  condPrior,           \* emaVol before the first call of normalizeVapiVolume
  condEma,             \* emaVol
  condFed,             \* the raw samples normalizeVapiVolume was called with
  condOut,             \* the values it returned
  probe                \* two calls from the same emaVol, side by side (<<>> when none)

condVars == <<condPrior, condEma, condFed, condOut, probe>>

VARIABLES
  circleState,         \* CircleTheme's state prop
  volumeRef,           \* volumeRef.current
  currentScale,        \* currentScaleRef.current
  currentGlow,         \* currentGlowRef.current
  peakVol,             \* peakVolRef.current
  peakHoldFrames,      \* peakHoldFrames.current
  rafRef,              \* rafRef.current: the handle of the last requested frame, 0 at mount
  pendingFrames,       \* the frame callbacks requested and neither run nor cancelled
  orbStrategy,         \* window.__orbStrategy, NULL when not set
  propChanges,         \* the prop changes since mount
  circleOp,            \* what the last step of the theme was
  prevRefs,            \* the refs before the last step
  lastFrameState,      \* the state of the last frame since the refs were at rest, else "none"
  framesSince,         \* the frames since mount or the last prop change, up to SettleFrames + 1
  framesBelow          \* strategy 4: the frames in a row that found the volume below the peak, up to HOLD_FRAMES + 1

circleVars == <<circleState, volumeRef, currentScale, currentGlow, peakVol, peakHoldFrames,
                rafRef, pendingFrames, orbStrategy, propChanges, circleOp, prevRefs,
                lastFrameState, framesSince, framesBelow>>

VARIABLES
  barsState,           \* BarsTheme's state prop
  barsVolume,          \* BarsTheme's volume prop
  smoothed,            \* smoothed.current: the five bar heights
  barsRaf,             \* BarsTheme's rafRef.current, 0 at mount
  barsPending,         \* the frame callbacks requested and neither run nor cancelled
  barsFrames,          \* the frames run since mount
  barsChanges,         \* the prop changes since mount
  barsOp               \* what the last step of the theme was

barsVars == <<barsState, barsVolume, smoothed, barsRaf, barsPending, barsFrames, barsChanges, barsOp>>

\* Everything outside the adapter.
uiVars == <<orbVars, condVars, circleVars, barsVars>>

vars == <<adapterVars, uiVars>>

\* ------------------------------------------------------------ step trace
StateCall(s, st) == [kind |-> "onStateChange", sub |-> s, state |-> st, num |-> 0]
VolumeCall(s, v) == [kind |-> "onVolumeChange", sub |-> s, state |-> "-", num |-> v]
ClearCall(id) == [kind |-> "clearTimeout", sub |-> 0, state |-> "-", num |-> id]
SetCall(s, id) == [kind |-> "setTimeout", sub |-> s, state |-> "-", num |-> id]
TimeoutCall(s, id) == [kind |-> "timeout", sub |-> s, state |-> "-", num |-> id]

\* The mutable state a handler works on.
Cur == [timer |-> stateDebounceTimer, timers |-> timers, last |-> lastEmitted,
        ema |-> emaVol, latest |-> latestAudioStream, tracks |-> trackState,
        calls |-> <<>>]

\* ------------------------------------------------------ volume conditioner
\* The passthrough below the floor: only the ramp is applied above it.
GateRampOnly(raw) == IF raw < NOISE_FLOOR THEN raw ELSE ((raw - NOISE_FLOOR) * SCALE) \div (SCALE - NOISE_FLOOR)

\* One rate for rise and fall.
RateAttackOnly(gated, ema) == ATTACK_PCT

Gate(raw) == IF raw < NOISE_FLOOR THEN 0 ELSE ((raw - NOISE_FLOOR) * SCALE) \div (SCALE - NOISE_FLOOR)

Rate(gated, ema) == IF gated > ema THEN ATTACK_PCT ELSE RELEASE_PCT

\* normalizeVapiVolume: the new emaVol, which is also the value returned.
NormalizeVapiVolume(ema, raw) ==
  LET gated == Gate(raw)
      rate == Rate(gated, ema)
  IN ema + ((gated - ema) * rate) \div 100

\* Raw samples for the conditioner taken alone: from below 0 to above 1.
RawGrid == {(i * 1200) \div MaxRawStep - 100 : i \in 0..MaxRawStep}

\* Values of emaVol to start from: the gated grid samples and the grid itself.
PriorGrid == {Gate(r) : r \in RawGrid} \cup {r \in RawGrid : r >= 0}

\* Vapi's alternating pattern: near-silent and loud levels.
FeedSamples == {7, 20, 667}

ConditionerAt(ema) ==
  /\ condPrior = ema
  /\ condEma = ema
  /\ condFed = <<>>
  /\ condOut = <<>>
  /\ probe = <<>>

\* -------------------------------------------------------- state debouncer
FreshTimerId(ts) == CHOOSE i \in 1..(Cardinality(ts) + 1) : \A t \in ts : t.id # i

\* The handle is dropped but the timeout is not cleared.
ForgetPending(st) == [st EXCEPT !.timer = NULL]

\* if (stateDebounceTimer) { clearTimeout(stateDebounceTimer); stateDebounceTimer = null }
ClearPending(st) ==
  IF st.timer # NULL
  THEN [st EXCEPT !.timers = {t \in @ : t.id # st.timer},
                  !.timer = NULL,
                  !.calls = Append(@, ClearCall(st.timer))]
  ELSE st

\* Every transition to 'listening' is held.
HoldEveryListening(last, next) == next = "listening"

IsDebounced(last, next) == last = "speaking" /\ next = "listening"

\* The timeout is set but its handle is not stored.
HoldWithoutHandle(st, s, next) ==
  LET id == FreshTimerId(st.timers)
  IN [st EXCEPT !.timers = @ \cup {[id |-> id, owner |-> s, next |-> next, elapsed |-> 0]},
                !.calls = Append(@, SetCall(s, id))]

\* stateDebounceTimer = setTimeout(..., 350)
HoldTransition(st, s, next) ==
  LET id == FreshTimerId(st.timers)
  IN [st EXCEPT !.timers = @ \cup {[id |-> id, owner |-> s, next |-> next, elapsed |-> 0]},
                !.timer = id,
                !.calls = Append(@, SetCall(s, id))]

\* A repeated state is swallowed.
DeliverIfChanged(st, s, next) ==
  IF st.last[s] = next THEN st
  ELSE [st EXCEPT !.last[s] = next, !.calls = Append(@, StateCall(s, next))]

\* lastEmitted = next; onStateChange(next)
Deliver(st, s, next) ==
  [st EXCEPT !.last[s] = next, !.calls = Append(@, StateCall(s, next))]

\* A held 'listening' is not re-armed: the window runs from the first request.
EmitStateKeepingFirst(st, s, next) ==
  IF st.timer # NULL /\ IsDebounced(st.last[s], next) THEN st
  ELSE LET c == ClearPending(st)
       IN IF IsDebounced(c.last[s], next) THEN HoldTransition(c, s, next) ELSE Deliver(c, s, next)

EmitState(st, s, next) ==
  LET c == ClearPending(st)
  IN IF IsDebounced(c.last[s], next) THEN HoldTransition(c, s, next) ELSE Deliver(c, s, next)

\* ------------------------------------------------------------ mic release
\* Every live track of every stream is stopped.
ReleaseEveryStream(st) ==
  [st EXCEPT !.tracks = [k \in Streams |-> IF @[k] = "live" THEN "ended" ELSE @[k]],
             !.latest = NULL]

\* releaseMic: stop every live track of latestAudioStream, then forget it.
ReleaseMic(st) ==
  [st EXCEPT !.tracks = [k \in Streams |->
                           IF k = st.latest /\ @[k] = "live" THEN "ended" ELSE @[k]],
             !.latest = NULL]

\* --------------------------------------------------------------- handlers
EmitVolume(st, s, v) == [st EXCEPT !.calls = Append(@, VolumeCall(s, v))]

ResetEma(st) == [st EXCEPT !.ema = 0]

OnCallStart(st, s) == EmitState(st, s, "listening")

OnCallEnd(st, s) == ReleaseMic(ResetEma(EmitVolume(EmitState(st, s, "disconnected"), s, 0)))

OnSpeechStart(st, s) == EmitState(st, s, "speaking")

\* The speech-end handler also zeroes the smoothed value.
OnSpeechEndResetting(st, s) == ResetEma(EmitVolume(EmitState(st, s, "listening"), s, 0))

OnSpeechEnd(st, s) == EmitVolume(EmitState(st, s, "listening"), s, 0)

OnVolumeLevel(st, s, raw) ==
  LET v == NormalizeVapiVolume(st.ema, raw)
  IN EmitVolume([st EXCEPT !.ema = v], s, v)

IsFinalUserTranscript(m) ==
  m.type = "transcript" /\ m.transcriptType = "final" /\ m.role = "user"

\* The transcript handler also zeroes the smoothed value.
OnMessageResetting(st, s, m) ==
  IF IsFinalUserTranscript(m)
  THEN ResetEma(EmitVolume(EmitState(st, s, "thinking"), s, 0))
  ELSE st

\* The role of the transcript is not looked at.
OnMessageAnyRole(st, s, m) ==
  IF m.type = "transcript" /\ m.transcriptType = "final"
  THEN EmitVolume(EmitState(st, s, "thinking"), s, 0)
  ELSE st

OnMessage(st, s, m) ==
  IF IsFinalUserTranscript(m) THEN EmitVolume(EmitState(st, s, "thinking"), s, 0) ELSE st

\* The error handler forgets emaVol = 0.
OnErrorKeepingEma(st, s) == ReleaseMic(EmitVolume(EmitState(st, s, "error"), s, 0))

OnError(st, s) == ReleaseMic(ResetEma(EmitVolume(EmitState(st, s, "error"), s, 0)))

\* The listener a session registered for an event, applied to the event's argument.
Handle(event, arg, st, s) ==
  CASE event = "call-start"   -> OnCallStart(st, s)
    [] event = "call-end"     -> OnCallEnd(st, s)
    [] event = "speech-start" -> OnSpeechStart(st, s)
    [] event = "speech-end"   -> OnSpeechEnd(st, s)
    [] event = "volume-level" -> OnVolumeLevel(st, s, arg)
    [] event = "message"      -> OnMessage(st, s, arg)
    [] event = "error"        -> OnError(st, s)

\* client.emit(event, arg): every registered listener, in registration order.
RECURSIVE Dispatch(_, _, _, _)
Dispatch(event, arg, ls, st) ==
  IF ls = <<>> THEN st
  ELSE Dispatch(event, arg, Tail(ls), Handle(event, arg, st, Head(ls)))

\* client.start(...): each wrapper emits 'connecting' and calls the start it bound.
RECURSIVE RunStart(_, _)
RunStart(fn, st) ==
  IF fn = ORIGINAL THEN st
  ELSE RunStart(originalStart[fn], EmitState(st, fn, "connecting"))

\* ---------------------------------------------------------------- VoiceOrb
\* Volumes a parent or an adapter hands to VoiceOrb.
OrbVolumes == {(i * SCALE) \div MaxVolumeStep : i \in 0..MaxVolumeStep}

Given(S) == {<<>>} \cup {<<x>> : x \in S}

PropsSet == [state : Given(OrbState), volume : Given(OrbVolumes), adapter : BOOLEAN]

NoProps == [state |-> <<>>, volume |-> <<>>, adapter |-> FALSE]

\* stateProp ?? adapterState
ThemeState(stateProp, fromAdapter) == IF stateProp = <<>> THEN fromAdapter ELSE stateProp[1]

\* volumeProp || adapterVolume: a volume prop of 0 falls through to the adapter.
VolumeOrAdapter(volumeProp, fromAdapter) ==
  IF volumeProp = <<>> \/ volumeProp[1] = 0 THEN fromAdapter ELSE volumeProp[1]

\* volumeProp ?? adapterVolume
ThemeVolume(volumeProp, fromAdapter) == IF volumeProp = <<>> THEN fromAdapter ELSE volumeProp[1]

\* One render of VoiceOrb: the themeProps it builds.
Render(p, st, vol) == [state |-> ThemeState(p.state, st), volume |-> ThemeVolume(p.volume, vol)]

\* VoiceOrb mounted with props p.
OrbMounted(p) ==
  /\ props = p
  /\ adapterState = "idle"
  /\ adapterVolume = 0
  /\ themeProps = Render(p, "idle", 0)
  /\ reported = [state |-> <<>>, volume |-> <<>>]

\* ------------------------------------------------------------ circle theme
SPEAK_BASE == 880
SPEAK_RANGE == 220
LISTEN_BASE == 900
LISTEN_RANGE == 150
SPEAK_GLOW == 16
LISTEN_GLOW == 10
WIDE_SPEAK_BASE == 700
WIDE_LISTEN_BASE == 750
WIDE_SPEAK_RANGE == 800
WIDE_LISTEN_RANGE == 500
WIDE_SPEAK_GLOW == 20
WIDE_LISTEN_GLOW == 14
SNAP_RISE_PCT == 40
SNAP_FALL_PCT == 10
CRISP_PCT == 55
HOLD_FRAMES == 8
DECAY_PCT == 9
REST_SCALE == 1000
DEFAULT_STRATEGY == 3

Strategies == 1..5

Active(st) == st \in {"listening", "speaking"}

\* Volumes the theme is handed.
CircleVolumes == {0, 500, 1000}

\* a * b / d, rounded to the nearest unit.
MulRound(a, b, d) == (2 * a * b + d) \div (2 * d)

\* base + vol * range and vol * glow for the strategies 1 to 4.
Base(st) == IF st = "speaking" THEN SPEAK_BASE ELSE LISTEN_BASE

Range(st) == IF st = "speaking" THEN SPEAK_RANGE ELSE LISTEN_RANGE

Glow(st) == IF st = "speaking" THEN SPEAK_GLOW ELSE LISTEN_GLOW

\* The same for strategy 5.
WideBase(st) == IF st = "speaking" THEN WIDE_SPEAK_BASE ELSE WIDE_LISTEN_BASE

WideRange(st) == IF st = "speaking" THEN WIDE_SPEAK_RANGE ELSE WIDE_LISTEN_RANGE

WideGlow(st) == IF st = "speaking" THEN WIDE_SPEAK_GLOW ELSE WIDE_LISTEN_GLOW

\* The targets of a frame: tScale and tGlow.
TargetScale(strategy, st, vol) ==
  IF strategy \in 1..4 THEN Base(st) + MulRound(vol, Range(st), SCALE)
  ELSE WideBase(st) + MulRound(vol, WideRange(st), SCALE)

TargetGlow(strategy, st, vol) ==
  IF strategy \in 1..4 THEN vol * Glow(st) ELSE vol * WideGlow(st)

\* The step is taken from the target instead of from the current value.
LerpFromTarget(current, target, pct) == target + MulRound(target - current, pct, 100)

\* current += (target - current) * rate
Lerp(current, target, pct) == current + MulRound(target - current, pct, 100)

SnapRate(current, target) == IF target > current THEN SNAP_RISE_PCT ELSE SNAP_FALL_PCT

\* The hold counter is never counted down.
PeakHoldForever(peak, hold, vol) ==
  IF vol >= peak THEN [peak |-> vol, hold |-> HOLD_FRAMES]
  ELSE IF hold > 0 THEN [peak |-> peak, hold |-> hold]
  ELSE [peak |-> peak - MulRound(peak - vol, DECAY_PCT, 100), hold |-> hold]

\* A volume equal to the peak does not re-arm the hold.
PeakHoldStrictRise(peak, hold, vol) ==
  IF vol > peak THEN [peak |-> vol, hold |-> HOLD_FRAMES]
  ELSE IF hold > 0 THEN [peak |-> peak, hold |-> hold - 1]
  ELSE [peak |-> peak - MulRound(peak - vol, DECAY_PCT, 100), hold |-> hold]

\* Strategy 4's peak and hold counter after a frame.
PeakHold(peak, hold, vol) ==
  IF vol >= peak THEN [peak |-> vol, hold |-> HOLD_FRAMES]
  ELSE IF hold > 0 THEN [peak |-> peak, hold |-> hold - 1]
  ELSE [peak |-> peak - MulRound(peak - vol, DECAY_PCT, 100), hold |-> hold]

\* const strategy = w.__orbStrategy ?? 3
StrategyOf(global) == IF global = NULL THEN DEFAULT_STRATEGY ELSE global

\* The refs after one run of animate, for the state its effect captured.
Animate(c, strategy, st, vol) ==
  LET tScale == TargetScale(strategy, st, vol)
      tGlow == TargetGlow(strategy, st, vol)
      held == PeakHold(c.peak, c.hold, vol)
  IN CASE strategy = 1 ->
            [c EXCEPT !.scale = Lerp(@, tScale, SnapRate(@, tScale)),
                      !.glow = Lerp(@, tGlow, SnapRate(@, tGlow))]
       [] strategy = 2 ->
            [c EXCEPT !.scale = Lerp(@, tScale, CRISP_PCT), !.glow = Lerp(@, tGlow, CRISP_PCT)]
       [] strategy = 3 ->
            [c EXCEPT !.scale = tScale, !.glow = tGlow]
       [] strategy = 4 ->
            [scale |-> Base(st) + MulRound(held.peak, Range(st), SCALE),
             glow |-> held.peak * Glow(st),
             peak |-> held.peak,
             hold |-> held.hold]
       [] OTHER ->
            [c EXCEPT !.scale = Lerp(@, tScale, CRISP_PCT), !.glow = Lerp(@, tGlow, CRISP_PCT)]

\* The theme's refs.
Refs == [scale |-> currentScale, glow |-> currentGlow, peak |-> peakVol, hold |-> peakHoldFrames]

\* The non-active branch of the effect: the refs at rest.
RestRefs == [scale |-> REST_SCALE, glow |-> 0, peak |-> 0, hold |-> 0]

SetRefs(c) ==
  /\ currentScale' = c.scale
  /\ currentGlow' = c.glow
  /\ peakVol' = c.peak
  /\ peakHoldFrames' = c.hold

\* requestAnimationFrame(animate) by the effect of state st.
FreshFrameId(frames) == CHOOSE i \in 1..(Cardinality(frames) + 1) : \A f \in frames : f.id # i

\* The cleanup cancels nothing.
CancelNothing(frames, id) == frames

\* cancelAnimationFrame(rafRef.current)
CancelFrame(frames, id) == {f \in frames : f.id # id}

\* The non-active branch cancels the frame but leaves the refs as they are.
RunEffectKeepingRefs(frames, st) ==
  IF Active(st)
  THEN LET id == FreshFrameId(frames)
       IN [frames |-> frames \cup {[id |-> id, state |-> st]}, raf |-> id, reset |-> FALSE]
  ELSE [frames |-> CancelFrame(frames, rafRef), raf |-> rafRef, reset |-> FALSE]

\* The effect of the state prop st, run at mount and after each change of it.
RunEffect(frames, st) ==
  IF Active(st)
  THEN LET id == FreshFrameId(frames)
       IN [frames |-> frames \cup {[id |-> id, state |-> st]}, raf |-> id, reset |-> FALSE]
  ELSE [frames |-> CancelFrame(frames, rafRef), raf |-> rafRef, reset |-> TRUE]

\* CircleTheme mounted with a state and a volume, window.__orbStrategy being g.
CircleMounted(st, vol, g) ==
  LET eff == RunEffect({}, st)
  IN /\ circleState = st
     /\ volumeRef = vol
     /\ currentScale = REST_SCALE
     /\ currentGlow = 0
     /\ peakVol = 0
     /\ peakHoldFrames = 0
     /\ rafRef = IF Active(st) THEN eff.raf ELSE 0
     /\ pendingFrames = eff.frames
     /\ orbStrategy = g
     /\ propChanges = 0
     /\ circleOp = "mount"
     /\ prevRefs = RestRefs
     /\ lastFrameState = "none"
     /\ framesSince = 0
     /\ framesBelow = 0

\* --------------------------------------------------------------- bars theme
BAR_COUNT == 5
MAX_H_PCT == 55
MIN_H_PCT == 6
BARS_LERP_PCT == 18

\* MULTIPLIERS, in hundredths.
MULTIPLIERS == <<60, 85, 100, 85, 60>>

\* The size prop, in the units heights are counted in.
BarsSize == 1000

MaxH == (BarsSize * MAX_H_PCT) \div 100
MinH == (BarsSize * MIN_H_PCT) \div 100

Bars == 1..BAR_COUNT

BarsVolumes == {0, SCALE}

\* The loop of 'thinking' runs frames too, but leaves smoothed alone.
Looping(st) == Active(st) \/ st = "thinking"

\* 0.5 + Math.random() * 0.5 when speaking, 0.3 + Math.random() * 0.7 otherwise,
\* in hundredths, for Math.random() 0 and 0.5.
RandSet(st) == IF st = "speaking" THEN {50, 75} ELSE {30, 65}

\* Math.max(minH, maxH * vol * MULTIPLIERS[i] * rand)
BarTarget(vol, i, rand) ==
  LET h == MulRound(MulRound(MulRound(MaxH, vol, SCALE), MULTIPLIERS[i], 100), rand, 100)
  IN IF h > MinH THEN h ELSE MinH

\* smoothed.current[i] += (target - smoothed.current[i]) * 0.18
BarStep(h, target) == h + MulRound(target - h, BARS_LERP_PCT, 100)

RestBars == [i \in Bars |-> 0]

\* The effect of the props st and vol: a loop for the states that have one,
\* else cancelAnimationFrame(rafRef.current).
BarsEffect(frames, raf, st, vol) ==
  IF Looping(st)
  THEN LET id == FreshFrameId(frames)
       IN [frames |-> frames \cup {[id |-> id, state |-> st, vol |-> vol]}, raf |-> id]
  ELSE [frames |-> CancelFrame(frames, raf), raf |-> raf]

BarsMounted(st, vol) ==
  LET eff == BarsEffect({}, 0, st, vol)
  IN /\ barsState = st
     /\ barsVolume = vol
     /\ smoothed = RestBars
     /\ barsRaf = eff.raf
     /\ barsPending = eff.frames
     /\ barsFrames = 0
     /\ barsChanges = 0
     /\ barsOp = "mount"

\* ---------------------------------------------------------------- actions
Commit(st) ==
  /\ stateDebounceTimer' = st.timer
  /\ timers' = st.timers
  /\ lastEmitted' = st.last
  /\ emaVol' = st.ema
  /\ latestAudioStream' = st.latest
  /\ trackState' = st.tracks
  /\ calls' = st.calls

\* The samples that went into emaVol since it was last 0.
Counted(st, n) == IF st.ema = 0 THEN 0 ELSE n

AdapterInit ==
  /\ subscribed = [s \in Sessions |-> "none"]
  /\ lastEmitted = [s \in Sessions |-> "idle"]
  /\ listeners = <<>>
  /\ clientStart = ORIGINAL
  /\ originalStart = [s \in Sessions |-> ORIGINAL]
  /\ stateDebounceTimer = NULL
  /\ timers = {}
  /\ emaVol = 0
  /\ volumeEvents = 0
  /\ latestAudioStream = NULL
  /\ trackState = [k \in Streams |-> "none"]
  /\ calls = <<>>
  /\ op = "init"

Init ==
  /\ AdapterInit
  /\ BarsMounted("idle", 0)
  /\ OrbMounted(NoProps)
  /\ ConditionerAt(0)
  /\ CircleMounted("idle", 0, NULL)

RemoveListener(ls, s) == SelectSeq(ls, LAMBDA x : x # s)

\* A second subscription is refused.
AddFirstListenerOnly(ls, s) == IF ls = <<>> THEN <<s>> ELSE ls

AddListener(ls, s) == Append(ls, s)

\* adapter.subscribe(callbacks): sessions are numbered in the order of the calls.
Subscribe(s) ==
  /\ subscribed[s] = "none"
  /\ \A r \in Sessions : r < s => subscribed[r] # "none"
  /\ subscribed' = [subscribed EXCEPT ![s] = "active"]
  /\ listeners' = AddListener(listeners, s)
  /\ originalStart' = [originalStart EXCEPT ![s] = clientStart]
  /\ clientStart' = s
  /\ calls' = <<>>
  /\ UNCHANGED <<lastEmitted, stateDebounceTimer, timers, emaVol, volumeEvents,
                 latestAudioStream, trackState>>
  /\ op' = "subscribe"
  /\ UNCHANGED uiVars

\* The function subscribe returned; it can be invoked any number of times.
Unsubscribe(s) ==
  /\ subscribed[s] # "none"
  /\ subscribed' = [subscribed EXCEPT ![s] = "closed"]
  /\ listeners' = RemoveListener(listeners, s)
  /\ clientStart' = originalStart[s]
  /\ Commit(ReleaseMic(ClearPending(Cur)))
  /\ UNCHANGED <<originalStart, volumeEvents>>
  /\ op' = "unsubscribe"
  /\ UNCHANGED uiVars

\* client.emit(event, arg) by the provider.  An event nobody listens to runs
\* no code of the adapter and is left out.
Fires(event, arg) ==
  /\ listeners # <<>>
  /\ op' = event
  /\ UNCHANGED uiVars
  /\ LET st == Dispatch(event, arg, listeners, Cur)
     IN Commit(st) /\ volumeEvents' = Counted(st, volumeEvents)

CallStart ==
  /\ Fires("call-start", NULL)
  /\ UNCHANGED <<subscribed, listeners, clientStart, originalStart>>

CallEnd ==
  /\ Fires("call-end", NULL)
  /\ UNCHANGED <<subscribed, listeners, clientStart, originalStart>>

SpeechStart ==
  /\ Fires("speech-start", NULL)
  /\ UNCHANGED <<subscribed, listeners, clientStart, originalStart>>

SpeechEnd ==
  /\ Fires("speech-end", NULL)
  /\ UNCHANGED <<subscribed, listeners, clientStart, originalStart>>

ErrorEvent ==
  /\ Fires("error", NULL)
  /\ UNCHANGED <<subscribed, listeners, clientStart, originalStart>>

VolumeLevelUpTo(raw, n) ==
  /\ volumeEvents < n
  /\ listeners # <<>>
  /\ LET st == Dispatch("volume-level", raw, listeners, Cur)
     IN Commit(st) /\ volumeEvents' = Counted(st, volumeEvents + 1)
  /\ op' = "volume-level"
  /\ UNCHANGED uiVars
  /\ UNCHANGED <<subscribed, listeners, clientStart, originalStart>>

VolumeLevel(raw) == VolumeLevelUpTo(raw, MaxVolumeEvents)

Message(m) ==
  /\ Fires("message", m)
  /\ UNCHANGED <<subscribed, listeners, clientStart, originalStart>>

\* Somebody calls client.start(...) while it is a wrapper of the adapter.
ClientStart ==
  /\ clientStart # ORIGINAL
  /\ Commit(RunStart(clientStart, Cur))
  /\ UNCHANGED <<subscribed, listeners, clientStart, originalStart, volumeEvents>>
  /\ op' = "start"
  /\ UNCHANGED uiVars

\* A timeout armed with no delay.
TimerDueAtOnce(t) == t.elapsed >= 0

TimerDue(t) == t.elapsed >= DEBOUNCE_MS

\* The timeout callback of emitState runs.
TimerFire(t) ==
  /\ t \in timers
  /\ TimerDue(t)
  /\ LET run == [Cur EXCEPT !.timers = @ \ {t}, !.calls = <<TimeoutCall(t.owner, t.id)>>]
     IN Commit([Deliver(run, t.owner, t.next) EXCEPT !.timer = NULL])
  /\ UNCHANGED <<subscribed, listeners, clientStart, originalStart, volumeEvents>>
  /\ op' = "timeout"
  /\ UNCHANGED uiVars

Timeout ==
  /\ timers # {}
  /\ \E t \in timers : TimerFire(t)

\* Time passes; a due timeout runs before more time passes.
Tick ==
  /\ timers # {}
  /\ \A t \in timers : ~TimerDue(t)
  /\ timers' = {[t EXCEPT !.elapsed = @ + TickMs] : t \in timers}
  /\ calls' = <<>>
  /\ UNCHANGED <<subscribed, lastEmitted, listeners, clientStart, originalStart,
                 stateDebounceTimer, emaVol, volumeEvents, latestAudioStream, trackState>>
  /\ op' = "tick"
  /\ UNCHANGED uiVars

\* The intercepted navigator.mediaDevices.getUserMedia resolves with a new stream.
GetUserMedia(audio) ==
  /\ \E k \in Streams :
       /\ trackState[k] = "none"
       /\ \A j \in Streams : j < k => trackState[j] # "none"
       /\ trackState' = [trackState EXCEPT ![k] = "live"]
       /\ latestAudioStream' = IF audio THEN k ELSE latestAudioStream
  /\ calls' = <<>>
  /\ UNCHANGED <<subscribed, lastEmitted, listeners, clientStart, originalStart,
                 stateDebounceTimer, timers, emaVol, volumeEvents>>
  /\ op' = "getUserMedia"
  /\ UNCHANGED uiVars

\* The provider's own teardown stops a track.
TrackEnds(k) ==
  /\ trackState[k] = "live"
  /\ trackState' = [trackState EXCEPT ![k] = "ended"]
  /\ calls' = <<>>
  /\ UNCHANGED <<subscribed, lastEmitted, listeners, clientStart, originalStart,
                 stateDebounceTimer, timers, emaVol, volumeEvents, latestAudioStream>>
  /\ op' = "track-ended"
  /\ UNCHANGED uiVars

Next ==
  \/ \E s \in Sessions : Subscribe(s)
  \/ \E s \in Sessions : Unsubscribe(s)
  \/ CallStart
  \/ CallEnd
  \/ SpeechStart
  \/ SpeechEnd
  \/ ErrorEvent
  \/ \E raw \in RawSamples : VolumeLevel(raw)
  \/ \E m \in Messages : Message(m)
  \/ ClientStart
  \/ Timeout
  \/ Tick

\* The adapter with its sessions, the provider's events and the timer.
Spec == Init /\ [][Next]_vars

\* The same, with the browser handing out media streams.
NextMic ==
  \/ Next
  \/ \E audio \in BOOLEAN : GetUserMedia(audio)
  \/ \E k \in Streams : TrackEnds(k)

SpecMic == Init /\ [][NextMic]_vars

NextRelease ==
  \/ \E s \in Sessions : Subscribe(s)
  \/ \E s \in Sessions : Unsubscribe(s)
  \/ CallStart
  \/ CallEnd
  \/ ErrorEvent
  \/ \E audio \in BOOLEAN : GetUserMedia(audio)
  \/ \E k \in Streams : TrackEnds(k)

\* The adapter with its sessions, the events that release the microphone,
\* and the browser handing out media streams.
SpecRelease == Init /\ [][NextRelease]_vars

\* ------------------------------------------------------ VoiceOrb's actions
\* The adapter calls onStateChange = setAdapterState; VoiceOrb renders again.
SetAdapterState(s) ==
  /\ props.adapter
  /\ adapterState' = s
  /\ reported' = [reported EXCEPT !.state = <<s>>]
  /\ themeProps' = Render(props, s, adapterVolume)
  /\ UNCHANGED <<props, adapterVolume, adapterVars, barsVars, condVars, circleVars>>

\* The adapter calls onVolumeChange = setAdapterVolume; VoiceOrb renders again.
SetAdapterVolume(v) ==
  /\ props.adapter
  /\ adapterVolume' = v
  /\ reported' = [reported EXCEPT !.volume = <<v>>]
  /\ themeProps' = Render(props, adapterState, v)
  /\ UNCHANGED <<props, adapterState, adapterVars, barsVars, condVars, circleVars>>

\* The parent renders VoiceOrb with new props.
Rerender(p) ==
  /\ p # props
  /\ props' = p
  /\ themeProps' = Render(p, adapterState, adapterVolume)
  /\ UNCHANGED <<adapterState, adapterVolume, reported, adapterVars, barsVars, condVars, circleVars>>

InitOrb ==
  /\ AdapterInit
  /\ BarsMounted("idle", 0)
  /\ ConditionerAt(0)
  /\ CircleMounted("idle", 0, NULL)
  /\ \E p \in PropsSet : OrbMounted(p)

NextOrb ==
  \/ \E s \in OrbState : SetAdapterState(s)
  \/ \E v \in OrbVolumes : SetAdapterVolume(v)
  \/ \E p \in PropsSet : Rerender(p)

\* VoiceOrb with a parent that sets its props and an adapter that reports.
SpecOrb == InitOrb /\ [][NextOrb]_vars

\* ------------------------------------------- the conditioner taken alone
\* normalizeVapiVolume(raw)
Feed(raw) ==
  /\ probe = <<>>
  /\ Len(condFed) < MaxFeed
  /\ condEma' = NormalizeVapiVolume(condEma, raw)
  /\ condFed' = Append(condFed, raw)
  /\ condOut' = Append(condOut, condEma')
  /\ UNCHANGED <<condPrior, probe, adapterVars, barsVars, orbVars, circleVars>>

\* normalizeVapiVolume(r1) and normalizeVapiVolume(r2), each from the drawn emaVol.
Probe(r1, r2) ==
  /\ probe = <<>>
  /\ condFed = <<>>
  /\ probe' = <<[r1 |-> r1, r2 |-> r2,
                 out1 |-> NormalizeVapiVolume(condEma, r1),
                 out2 |-> NormalizeVapiVolume(condEma, r2)]>>
  /\ UNCHANGED <<condPrior, condEma, condFed, condOut, adapterVars, barsVars, orbVars, circleVars>>

InitCond ==
  /\ AdapterInit
  /\ BarsMounted("idle", 0)
  /\ OrbMounted(NoProps)
  /\ CircleMounted("idle", 0, NULL)
  /\ \E ema \in PriorGrid : ConditionerAt(ema)

NextCond ==
  \/ \E raw \in FeedSamples : Feed(raw)
  \/ \E r1, r2 \in RawGrid : Probe(r1, r2)

\* normalizeVapiVolume from any drawn emaVol.
SpecCond == InitCond /\ [][NextCond]_vars

\* ------------------------------------------------- the circle theme's actions
\* The browser runs a pending frame callback: animate, which requests the next.
CircleFrame ==
  /\ pendingFrames # {}
  /\ \E f \in pendingFrames :
       LET rest == pendingFrames \ {f}
           id == FreshFrameId(rest)
       IN /\ SetRefs(Animate(Refs, StrategyOf(orbStrategy), f.state, volumeRef))
          /\ orbStrategy' = StrategyOf(orbStrategy)
          /\ pendingFrames' = rest \cup {[id |-> id, state |-> f.state]}
          /\ rafRef' = id
          /\ lastFrameState' = f.state
  /\ circleOp' = "frame"
  /\ prevRefs' = Refs
  /\ framesSince' = IF framesSince <= SettleFrames THEN framesSince + 1 ELSE framesSince
  /\ framesBelow' = IF StrategyOf(orbStrategy) # 4 THEN framesBelow
                    ELSE IF volumeRef >= peakVol THEN 0
                    ELSE IF framesBelow <= HOLD_FRAMES THEN framesBelow + 1
                    ELSE framesBelow
  /\ UNCHANGED <<circleState, volumeRef, propChanges, adapterVars, barsVars, orbVars, condVars>>

\* The theme is rendered with another volume: the layout effect writes volumeRef.
CircleSetVolume(vol) ==
  /\ propChanges < MaxPropChanges
  /\ vol # volumeRef
  /\ volumeRef' = vol
  /\ propChanges' = propChanges + 1
  /\ circleOp' = "volume"
  /\ prevRefs' = Refs
  /\ framesSince' = 0
  /\ UNCHANGED <<circleState, currentScale, currentGlow, peakVol, peakHoldFrames,
                 rafRef, pendingFrames, orbStrategy, lastFrameState, framesBelow,
                 adapterVars, barsVars, orbVars, condVars>>

\* The theme is rendered with another state: the cleanup of the old effect
\* runs, then the effect of the new state.
CircleSetState(st) ==
  /\ propChanges < MaxPropChanges
  /\ st # circleState
  /\ circleState' = st
  /\ LET cleaned == IF Active(circleState) THEN CancelFrame(pendingFrames, rafRef) ELSE pendingFrames
         eff == RunEffect(cleaned, st)
     IN /\ pendingFrames' = eff.frames
        /\ rafRef' = eff.raf
        /\ SetRefs(IF eff.reset THEN RestRefs ELSE Refs)
        /\ lastFrameState' = IF eff.reset THEN "none" ELSE lastFrameState
        /\ framesBelow' = IF eff.reset THEN 0 ELSE framesBelow
  /\ propChanges' = propChanges + 1
  /\ circleOp' = "state"
  /\ prevRefs' = Refs
  /\ framesSince' = 0
  /\ UNCHANGED <<volumeRef, orbStrategy, adapterVars, barsVars, orbVars, condVars>>

InitCircle ==
  /\ AdapterInit
  /\ BarsMounted("idle", 0)
  /\ OrbMounted(NoProps)
  /\ ConditionerAt(0)
  /\ \E st \in OrbState, vol \in CircleVolumes, g \in Strategies \cup {NULL} :
       CircleMounted(st, vol, g)

NextCircle ==
  \/ CircleFrame
  \/ \E vol \in CircleVolumes : CircleSetVolume(vol)
  \/ \E st \in OrbState : CircleSetState(st)

\* The circle theme with a parent that sets its props and a browser that runs frames.
SpecCircle == InitCircle /\ [][NextCircle]_vars

\* ------------------------------------------------------- claim vocabulary
ListenerSet == {listeners[i] : i \in 1..Len(listeners)}

\* The sessions whose wrapper a call of client.start runs.
RECURSIVE StartChain(_)
StartChain(fn) == IF fn = ORIGINAL THEN {} ELSE {fn} \cup StartChain(originalStart[fn])

\* The states handed to session s's onStateChange during the step that ended in cs.
StatesTo(cs, s) ==
  LET mine == SelectSeq(cs, LAMBDA c : c.kind = "onStateChange" /\ c.sub = s)
  IN [i \in 1..Len(mine) |-> mine[i].state]

CallbacksTo(cs, s) ==
  SelectSeq(cs, LAMBDA c : c.kind \in {"onStateChange", "onVolumeChange"} /\ c.sub = s)

\* Session s is 'speaking' for its consumer and its 'listening' is held on the timer.
Held(s) ==
  /\ lastEmitted[s] = "speaking"
  /\ \E t \in timers : t.owner = s /\ t.id = stateDebounceTimer /\ t.next = "listening"

FinalUserTranscript == [type |-> "transcript", transcriptType |-> "final", role |-> "user"]

\* -------------------------------------------------------------------- C1
\* C1: when session s has emitted 'speaking', its 'listening' is held and a
\* speech-start arrives before the timer has fired, the timer is cancelled,
\* no timeout stays pending, and the only state s's consumer is handed is
\* 'speaking': the held 'listening' is never delivered.
C1_DebounceSuppression ==
  [][\A s \in Sessions :
       (Held(s) /\ op' = "speech-start") =>
         /\ Len(calls') > 0
         /\ calls'[1] = ClearCall(stateDebounceTimer)
         /\ timers' = {}
         /\ stateDebounceTimer' = NULL
         /\ StatesTo(calls', s) = <<"speaking">>
         /\ lastEmitted'[s] = "speaking"]_vars

C1_Witness ==
  /\ listeners = <<1>>
  /\ subscribed[2] = "none"
  /\ calls = <<ClearCall(1), StateCall(1, "speaking")>>
  /\ timers = {}

\* -------------------------------------------------------------------- C2
\* C2: a session whose last emitted state is 'speaking' is handed 'listening'
\* only by the timeout callback, only once the full debounce window has
\* elapsed since the request, and exactly once: the callback hands
\* 'listening' to the session that armed it, as that step's only call, and
\* no timeout stays pending after it.
C2_DelayedEmit ==
  [][/\ \A s \in Sessions :
          (lastEmitted[s] = "speaking" /\ StatesTo(calls', s) # <<>>
             /\ StatesTo(calls', s)[1] = "listening") =>
            /\ op' = "timeout"
            /\ \E t \in timers :
                 /\ t.owner = s
                 /\ t.id = stateDebounceTimer
                 /\ t.elapsed >= DEBOUNCE_MS
     /\ op' = "timeout" =>
          /\ \E s \in Sessions :
               /\ lastEmitted[s] = "speaking"
               /\ calls' = <<TimeoutCall(s, stateDebounceTimer), StateCall(s, "listening")>>
               /\ lastEmitted'[s] = "listening"
          /\ timers' = {}
          /\ stateDebounceTimer' = NULL]_vars

C2_Witness ==
  /\ calls = <<TimeoutCall(1, 1), StateCall(1, "listening")>>
  /\ lastEmitted[1] = "listening"
  /\ stateDebounceTimer = NULL
  /\ timers = {}

\* -------------------------------------------------------------------- C3
\* C3: when a step runs session s's emitState(next) and the transition is
\* not speaking -> listening, the timer that was pending is cleared first,
\* next is handed to s's onStateChange in that same step, and no timeout of
\* s stays pending: whatever is pending afterwards was armed in this step,
\* by another session whose own transition was speaking -> listening.
Immediate(s, next) ==
  ~(lastEmitted[s] = "speaking" /\ next = "listening") =>
    /\ StatesTo(calls', s) = <<next>>
    /\ lastEmitted'[s] = next
    /\ stateDebounceTimer # NULL =>
         Len(calls') > 0 /\ calls'[1] = ClearCall(stateDebounceTimer)
    /\ \A t \in timers' :
         /\ t.owner # s
         /\ t.elapsed = 0
         /\ t.id = stateDebounceTimer'
         /\ lastEmitted[t.owner] = "speaking" /\ next = "listening"
         /\ \E i \in 1..Len(calls') : calls'[i] = SetCall(t.owner, t.id)

C3_ImmediateTransition ==
  [][/\ op' \in {"call-start", "speech-end"} => \A s \in ListenerSet : Immediate(s, "listening")
     /\ op' = "speech-start" => \A s \in ListenerSet : Immediate(s, "speaking")
     /\ op' = "call-end" => \A s \in ListenerSet : Immediate(s, "disconnected")
     /\ op' = "error" => \A s \in ListenerSet : Immediate(s, "error")
     /\ (op' = "message" /\ Message(FinalUserTranscript)) =>
          \A s \in ListenerSet : Immediate(s, "thinking")
     /\ op' = "start" => \A s \in StartChain(clientStart) : Immediate(s, "connecting")]_vars

\* A final user transcript while a 'listening' was held: the timer is cleared
\* and both sessions are handed 'thinking' in that step.
C3_Witness ==
  /\ listeners = <<1, 2>>
  /\ calls = <<ClearCall(1), StateCall(1, "thinking"), VolumeCall(1, 0),
               StateCall(2, "thinking"), VolumeCall(2, 0)>>
  /\ timers = {}
  /\ stateDebounceTimer = NULL

\* -------------------------------------------------------------------- C4
\* C4: once session s's unsubscribe has been invoked, no step hands anything
\* to s's onStateChange or onVolumeChange, and no timeout of s is pending.
C4_TeardownCleanliness ==
  [][\A s \in Sessions :
       subscribed'[s] = "closed" =>
         /\ CallbacksTo(calls', s) = <<>>
         /\ \A t \in timers' : t.owner # s]_vars

\* -------------------------------------------------------------------- C5
\* C5: the smoothed value emaVol and every value handed to onVolumeChange lie
\* within [0, 1], whatever raw samples arrive.
C5_BoundedOutput ==
  /\ emaVol \in 0..SCALE
  /\ \A i \in 1..Len(calls) :
       calls[i].kind = "onVolumeChange" => calls[i].num \in 0..SCALE

\* -------------------------------------------------------------------- C6
\* C6: an 'error' event, with or without a pending timer, clears the pending
\* timer first and leaves none pending (a held 'listening' is gone), hands
\* 'error' to onStateChange and then 0 to onVolumeChange of every subscribed
\* session, and leaves emaVol at 0.
C6_ProviderFault ==
  [][op' = "error" =>
       /\ stateDebounceTimer # NULL =>
            Len(calls') > 0 /\ calls'[1] = ClearCall(stateDebounceTimer)
       /\ timers' = {}
       /\ stateDebounceTimer' = NULL
       /\ emaVol' = 0
       /\ \A s \in ListenerSet :
            /\ lastEmitted'[s] = "error"
            /\ CallbacksTo(calls', s) = <<StateCall(s, "error"), VolumeCall(s, 0)>>]_vars

\* An error while 'listening' was held for the only session.
C6_Witness ==
  /\ op = "error"
  /\ listeners = <<1>>
  /\ calls = <<ClearCall(1), StateCall(1, "error"), VolumeCall(1, 0)>>
  /\ emaVol = 0
  /\ timers = {}

\* -------------------------------------------------------------------- C7
\* C7 as stated: no step hands a session the state it emitted last.
C7_NoReEmit ==
  [][\A s \in Sessions : \A i \in 1..Len(StatesTo(calls', s)) :
       StatesTo(calls', s)[i] # lastEmitted[s]]_vars

\* C7 as amended: a request for the state a session emitted last clears the
\* pending timer and is handed to onStateChange again, at once; this holds
\* for every state, 'speaking' after a held 'listening' included.
Repeated(s, next) ==
  lastEmitted[s] = next =>
    /\ StatesTo(calls', s) = <<next>>
    /\ lastEmitted'[s] = next
    /\ stateDebounceTimer # NULL =>
         Len(calls') > 0 /\ calls'[1] = ClearCall(stateDebounceTimer)
    /\ \A t \in timers' : t.owner # s

C7_RepeatIsReEmitted ==
  [][/\ op' \in {"call-start", "speech-end"} => \A s \in ListenerSet : Repeated(s, "listening")
     /\ op' = "speech-start" => \A s \in ListenerSet : Repeated(s, "speaking")
     /\ op' = "call-end" => \A s \in ListenerSet : Repeated(s, "disconnected")
     /\ op' = "error" => \A s \in ListenerSet : Repeated(s, "error")
     /\ (op' = "message" /\ Message(FinalUserTranscript)) =>
          \A s \in ListenerSet : Repeated(s, "thinking")
     /\ op' = "start" => \A s \in StartChain(clientStart) : Repeated(s, "connecting")]_vars

\* speaking -> held listening -> speaking: the session whose 'listening' was
\* held is handed 'speaking' a second time.
C7_Witness ==
  /\ op = "speech-start"
  /\ listeners = <<1, 2>>
  /\ calls = <<ClearCall(1), StateCall(1, "speaking"), StateCall(2, "speaking")>>

\* -------------------------------------------------------------------- C8
\* C8 as stated: whenever a session leaves 'listening'/'speaking' for another
\* state, emaVol is 0 afterwards.
SignalBearing == {"listening", "speaking"}

C8_ResetOnLeaving ==
  [][\A s \in Sessions :
       (lastEmitted[s] \in SignalBearing /\ lastEmitted'[s] \notin SignalBearing) =>
         emaVol' = 0]_vars

\* C8 as amended: when a session leaves 'listening'/'speaking', emaVol is
\* reset to 0 if the new state is 'disconnected' or 'error', and keeps its
\* value if the new state is 'thinking' or 'connecting'.
C8_ResetOnEndOrError ==
  [][\A s \in Sessions :
       (lastEmitted[s] \in SignalBearing /\ lastEmitted'[s] \notin SignalBearing) =>
         /\ lastEmitted'[s] \in {"disconnected", "error", "thinking", "connecting"}
         /\ lastEmitted'[s] \in {"disconnected", "error"} => emaVol' = 0
         /\ lastEmitted'[s] \in {"thinking", "connecting"} => emaVol' = emaVol]_vars

\* 'speaking' with 'listening' held -> 'thinking', the smoothed value kept.
C8_Witness ==
  /\ op = "message"
  /\ listeners = <<1>>
  /\ calls = <<ClearCall(1), StateCall(1, "thinking"), VolumeCall(1, 0)>>
  /\ emaVol > 0

\* -------------------------------------------------------------------- C9
\* C9: invoking a session's unsubscribe again changes nothing: the listeners,
\* client.start, the timer and every session's closure stay as they were.
C9_UnsubscribeIdempotent ==
  [][\A s \in Sessions :
       (subscribed[s] = "closed" /\ Unsubscribe(s)) =>
         UNCHANGED <<subscribed, lastEmitted, listeners, clientStart, originalStart,
                     stateDebounceTimer, timers, emaVol>>]_vars

\* ------------------------------------------------------------------- C10
\* C10 as stated: a subscribe while another session is subscribed is
\* rejected: it registers no listeners and leaves client.start alone.
C10_SecondSubscribeRejected ==
  [][\A s \in Sessions :
       (Subscribe(s) /\ \E r \in Sessions : subscribed[r] = "active") =>
         UNCHANGED <<listeners, clientStart>>]_vars

\* C10 as amended: subscribe is never refused; every session that subscribed
\* and has not unsubscribed has its listeners registered exactly once, in
\* the order of the subscribe calls, however many others are subscribed,
\* and client.start is the wrapper of the session that subscribed last.
C10_EverySubscribeRegisters ==
  /\ \A s \in Sessions :
       subscribed[s] = "active" <=> \E i \in 1..Len(listeners) : listeners[i] = s
  /\ \A i, j \in 1..Len(listeners) : i < j => listeners[i] < listeners[j]
  /\ op = "subscribe" => clientStart = listeners[Len(listeners)]

C10_Witness ==
  /\ op = "subscribe"
  /\ listeners = <<1, 2>>
  /\ clientStart = 2
  /\ originalStart[2] = 1

\* ------------------------------------------------------------------- C11
\* C11: client.start runs the wrapper of every subscribed session and of no
\* session that has unsubscribed, and a call of it hands 'connecting' to
\* exactly the subscribed sessions, once each.
C11_StartInterception ==
  /\ \A s \in Sessions :
       /\ subscribed[s] = "active" => s \in StartChain(clientStart)
       /\ subscribed[s] = "closed" => s \notin StartChain(clientStart)
  /\ op = "start" =>
       \A s \in Sessions :
         StatesTo(calls, s) = IF subscribed[s] = "active" THEN <<"connecting">> ELSE <<>>

\* ------------------------------------------------------------------- C12
\* C12: the state VoiceOrb hands to the theme is the state prop whenever it
\* is given, else the state the adapter reported last, 'idle' before any
\* report; the volume handed to the theme is the volume prop whenever it is
\* given, a prop of 0 included, else the volume the adapter reported last,
\* 0 before any report.
C12_ControlledOverride ==
  /\ themeProps.state =
       IF props.state # <<>> THEN props.state[1]
       ELSE IF reported.state # <<>> THEN reported.state[1] ELSE "idle"
  /\ themeProps.volume =
       IF props.volume # <<>> THEN props.volume[1]
       ELSE IF reported.volume # <<>> THEN reported.volume[1] ELSE 0

\* A volume prop of 0 and a state prop override what the adapter reported.
C12_Witness ==
  /\ props.volume = <<0>>
  /\ props.state = <<"idle">>
  /\ reported.volume = <<SCALE>>
  /\ reported.state = <<"speaking">>
  /\ themeProps = [state |-> "idle", volume |-> 0]

\* ------------------------------------------------------------------- C13
\* C13: from the same emaVol, a smaller raw sample never gives a larger
\* output than a larger raw sample: normalizeVapiVolume is non-decreasing in
\* raw, across the noise floor and across the switch of rate at gated =
\* emaVol too.
C13_GateMonotone ==
  probe # <<>> =>
    (probe[1].r1 < probe[1].r2 => probe[1].out1 <= probe[1].out2)

\* r1 under the floor is released, r2 above it attacks, from emaVol > 0.
C13_Witness ==
  /\ probe # <<>>
  /\ condPrior > 0
  /\ probe[1].r1 < NOISE_FLOOR
  /\ probe[1].r2 > NOISE_FLOOR
  /\ Rate(Gate(probe[1].r1), condPrior) = RELEASE_PCT
  /\ Rate(Gate(probe[1].r2), condPrior) = ATTACK_PCT
  /\ probe[1].out1 < condPrior
  /\ probe[1].out2 > condPrior

\* ------------------------------------------------------------------- C14
\* The raw sequence of the scenario, and the values the real-number
\* arithmetic of normalizeVapiVolume gives for it from emaVol = 0, to three
\* places.
Scenario == <<20, 667, 7, 667, 7>>

ScenarioValues == <<0, 404, 356, 528, 465>>

IsPrefix(a, b) == Len(a) <= Len(b) /\ \A i \in 1..Len(a) : a[i] = b[i]

Near(x, y) == x - y \in (0 - 3)..3

\* C14 as stated: from emaVol = 0 the scenario's first sample gives 0 and
\* every later one gives a value above about 0.5 (0.45 at the least).
C14_StaysAboveHalf ==
  (condPrior = 0 /\ IsPrefix(condFed, Scenario)) =>
    \A i \in 1..Len(condOut) :
      IF i = 1 THEN condOut[i] = 0 ELSE condOut[i] * 100 >= SCALE * 45

\* C14 as amended: from emaVol = 0 the scenario's first sample gives 0 and
\* the later ones give about 0.404, 0.356, 0.528 and 0.465: from the first
\* loud sample on the smoothed value stays above 0.35 and never drops near
\* 0, and it is above 0.5 only right after the second loud sample.
C14_AntiFlicker ==
  (condPrior = 0 /\ IsPrefix(condFed, Scenario)) =>
    \A i \in 1..Len(condOut) :
      /\ Near(condOut[i], ScenarioValues[i])
      /\ i = 1 => condOut[i] = 0
      /\ i > 1 => condOut[i] * 100 >= SCALE * 35
      /\ condOut[i] * 100 > SCALE * 50 <=> i = 4

\* The whole scenario has run.
C14_Witness ==
  /\ condPrior = 0
  /\ condFed = Scenario
  /\ Len(condOut) = 5
  /\ condOut[1] = 0
  /\ Near(condOut[5], 465)

\* ------------------------------------------------------------------- C15
Between(a, x, b) == (a <= x /\ x <= b) \/ (b <= x /\ x <= a)

\* C15 as stated: after every frame, under every strategy, the scale and the
\* glow lie between their values before the frame and the frame's targets,
\* and under peak-hold so does the held peak, between its value before the
\* frame and the volume.
C15_NoOvershoot ==
  circleOp = "frame" =>
    /\ Between(prevRefs.scale, currentScale,
               TargetScale(orbStrategy, lastFrameState, volumeRef))
    /\ Between(prevRefs.glow, currentGlow,
               TargetGlow(orbStrategy, lastFrameState, volumeRef))
    /\ orbStrategy = 4 => Between(prevRefs.peak, peakVol, volumeRef)

\* C15 as amended: under the strategies 1, 2, 3 and 5 the scale and the glow
\* lie between their values before the frame and the frame's targets.  Under
\* peak-hold the held peak lies between its value before the frame and the
\* volume, and the scale and the glow are recomputed from the held peak with
\* the constants of the frame's state: they lie between their values before
\* the frame and the targets when the frame is the first since the refs were
\* at rest or the frame before it ran in the same state.
C15_NoOvershootSameState ==
  [][circleOp' = "frame" =>
       LET st == lastFrameState'
           tScale == TargetScale(orbStrategy', st, volumeRef)
           tGlow == TargetGlow(orbStrategy', st, volumeRef)
       IN /\ orbStrategy' # 4 =>
               /\ Between(currentScale, currentScale', tScale)
               /\ Between(currentGlow, currentGlow', tGlow)
          /\ orbStrategy' = 4 =>
               /\ Between(peakVol, peakVol', volumeRef)
               /\ currentScale' = Base(st) + MulRound(peakVol', Range(st), SCALE)
               /\ currentGlow' = peakVol' * Glow(st)
               /\ lastFrameState \in {"none", st} =>
                    /\ Between(currentScale, currentScale', tScale)
                    /\ Between(currentGlow, currentGlow', tGlow)]_vars

\* A frame of the asymmetric lerp that moved the scale down and the glow up,
\* each strictly between its old value and its target.
C15_Witness ==
  /\ circleOp = "frame"
  /\ orbStrategy = 1
  /\ TargetScale(1, lastFrameState, volumeRef) < currentScale
  /\ currentScale < prevRefs.scale
  /\ prevRefs.glow < currentGlow
  /\ currentGlow < TargetGlow(1, lastFrameState, volumeRef)

\* ------------------------------------------------------------------- C16
\* The refs are what one more frame would leave them.
AtFixedPoint == Animate(Refs, StrategyOf(orbStrategy), circleState, volumeRef) = Refs

Apart(x, y) == IF x >= y THEN x - y ELSE y - x

\* C16 as stated: once SettleFrames frames have run with the volume and the
\* state unchanged, the scale and the glow are the targets of that volume
\* (and under peak-hold the held peak is the volume), and a further frame
\* changes nothing.
C16_ReachesTarget ==
  (Active(circleState) /\ framesSince >= SettleFrames) =>
    /\ currentScale = TargetScale(orbStrategy, circleState, volumeRef)
    /\ currentGlow = TargetGlow(orbStrategy, circleState, volumeRef)
    /\ orbStrategy = 4 => peakVol = volumeRef
    /\ framesSince > SettleFrames => Refs = prevRefs

\* C16 as amended: once SettleFrames frames have run with the volume and the
\* state unchanged, a further frame changes nothing, and the values have
\* reached the targets to within the rounding of the arithmetic: exactly
\* under the direct, the symmetric 0.55 and the wide strategies; to within
\* 5 units of the last place of scale and glow under the asymmetric
\* 0.40/0.10 lerp; and under peak-hold the held peak is within 5 units above
\* the volume, with scale and glow the values of that peak.
C16_Converges ==
  (Active(circleState) /\ framesSince >= SettleFrames) =>
    LET tScale == TargetScale(orbStrategy, circleState, volumeRef)
        tGlow == TargetGlow(orbStrategy, circleState, volumeRef)
    IN /\ AtFixedPoint
       /\ framesSince > SettleFrames => (circleOp = "frame" /\ Refs = prevRefs)
       /\ orbStrategy \in {2, 3, 5} => (currentScale = tScale /\ currentGlow = tGlow)
       /\ orbStrategy = 1 => (Apart(currentScale, tScale) <= 5 /\ Apart(currentGlow, tGlow) <= 5)
       /\ orbStrategy = 4 =>
            /\ peakVol - volumeRef \in 0..5
            /\ currentScale = Base(circleState) + MulRound(peakVol, Range(circleState), SCALE)
            /\ currentGlow = peakVol * Glow(circleState)

\* The asymmetric lerp has come to rest short of its target, and a frame
\* after that changed nothing.
C16_Witness ==
  /\ Active(circleState)
  /\ framesSince > SettleFrames
  /\ orbStrategy = 1
  /\ circleOp = "frame"
  /\ Refs = prevRefs
  /\ currentGlow # TargetGlow(1, circleState, volumeRef)
  /\ Apart(currentGlow, TargetGlow(1, circleState, volumeRef)) <= 5

\* ------------------------------------------------------------------- C17
\* C17: in every state other than 'listening' and 'speaking' no frame is
\* pending and the refs are at rest (scale 1, glow 0, peak 0, hold 0), so a
\* change from 'listening'/'speaking' to another state has reset them and a
\* later return starts from rest; a change of state that ends in
\* 'listening' or 'speaking' leaves the refs as they were and has exactly
\* one frame pending, for the new state.
C17_ResetOnLeavingActive ==
  /\ ~Active(circleState) => (Refs = RestRefs /\ pendingFrames = {})
  /\ (circleOp = "state" /\ Active(circleState)) =>
       /\ Refs = prevRefs
       /\ pendingFrames = {[id |-> rafRef, state |-> circleState]}

\* A change to 'thinking' after frames had moved scale, glow and peak.
C17_Witness ==
  /\ circleOp = "state"
  /\ circleState = "thinking"
  /\ prevRefs.scale # REST_SCALE
  /\ prevRefs.glow > 0
  /\ prevRefs.peak > 0
  /\ prevRefs.hold > 0
  /\ Refs = RestRefs
  /\ pendingFrames = {}

\* ------------------------------------------------------------------- C18
\* The state the doc comment of createVapiAdapter gives for an event.
Mapped(event) ==
  CASE event = "start"        -> "connecting"
    [] event = "call-start"   -> "listening"
    [] event = "speech-start" -> "speaking"
    [] event = "speech-end"   -> "listening"
    [] event = "message"      -> "thinking"
    [] event = "call-end"     -> "disconnected"
    [] event = "error"        -> "error"

\* The calls by which emitState took up a state for session s: a delivery or a hold.
Requests(cs, s) ==
  SelectSeq(cs, LAMBDA c : c.sub = s /\ c.kind \in {"onStateChange", "setTimeout"})

\* Call c takes up state x for session s; only 'listening' is ever held.  The
\* held state is read from the timeout, when a later listener has not cleared it.
Takes(c, s, x, ts) ==
  \/ c = StateCall(s, x)
  \/ /\ c.kind = "setTimeout"
     /\ c.sub = s
     /\ x = "listening"
     /\ \A t \in ts : (t.id = c.num /\ t.owner = s) => t.next = x

\* A step of the provider's event e made every listener take up Mapped(e), once.
EachListenerTakes(e) ==
  \A s \in 1..MaxSessions :
    IF \E i \in 1..Len(listeners) : listeners[i] = s
    THEN /\ Len(Requests(calls', s)) = 1
         /\ Takes(Requests(calls', s)[1], s, Mapped(e), timers')
    ELSE Requests(calls', s) = <<>>

\* The step took up no state for any session.
NoRequest ==
  \A i \in 1..Len(calls') : calls'[i].kind \notin {"onStateChange", "setTimeout"}

\* C18: client.start() makes the adapter take up 'connecting'; call-start
\* 'listening'; speech-start 'speaking'; speech-end 'listening' (delivered
\* or held by the debouncer); a message that is a final transcript of the
\* user 'thinking' and any other message nothing; call-end 'disconnected';
\* error 'error'; a volume level, a subscribe and an unsubscribe nothing;
\* an expired timer delivers the held 'listening'; and 'idle' is never
\* delivered nor held.  A message step that took up nothing is the step of no
\* final transcript of the user; one that took up 'thinking' is the step of no
\* other message.
C18_EventMapping ==
  [][ /\ CASE op' \in {"call-start", "speech-start", "speech-end", "call-end", "error"} ->
                EachListenerTakes(op')
            [] op' = "message" ->
                IF NoRequest
                THEN \A m \in Messages : IsFinalUserTranscript(m) => ~Message(m)
                ELSE /\ EachListenerTakes("message")
                     /\ \A m \in Messages : Message(m) => IsFinalUserTranscript(m)
            [] op' = "start" ->
                /\ \E s \in 1..MaxSessions : Requests(calls', s) # <<>>
                /\ \A s \in 1..MaxSessions :
                     \A i \in 1..Len(Requests(calls', s)) :
                       Requests(calls', s)[i] = StateCall(s, "connecting")
            [] op' = "timeout" ->
                \E s \in 1..MaxSessions :
                  /\ Requests(calls', s) = <<StateCall(s, "listening")>>
                  /\ \A r \in 1..MaxSessions \ {s} : Requests(calls', r) = <<>>
            [] OTHER -> NoRequest
      /\ \A i \in 1..Len(calls') : calls'[i].state # "idle"
      /\ \A t \in timers' : t.next # "idle"
    ]_vars

\* Two sessions listen; a final transcript of the user made both of them
\* 'thinking'.
C18_Witness ==
  /\ op = "message"
  /\ Len(listeners) = 2
  /\ \A s \in 1..MaxSessions : Requests(calls, s) = <<StateCall(s, "thinking")>>
  /\ \A s \in 1..MaxSessions : lastEmitted[s] = "thinking"

\* ------------------------------------------------------------------- C19
\* C19: when the last session has ended by unsubscribe, the smoothed value
\* emaVol is 0 and no debounce timer is held, so a subscription created
\* afterwards starts smoothing from 0.
C19_UnsubscribeResetsEma ==
  (op = "unsubscribe" /\ listeners = <<>>) => (emaVol = 0 /\ stateDebounceTimer = NULL)

\* ------------------------------------------------------------------- C20
\* Every setTimeout among the calls of the last step comes after a
\* clearTimeout of each timeout set earlier in the step.
ArmedAfterCancel ==
  \A i \in 1..Len(calls) : \A j \in 1..Len(calls) :
    (i < j /\ calls[i].kind = "setTimeout" /\ calls[j].kind = "setTimeout") =>
      \E k \in (i + 1)..(j - 1) : calls[k] = ClearCall(calls[i].num)

\* C20: in every reachable state at most one debounce timeout is pending;
\* stateDebounceTimer is its handle, and is null exactly when none is
\* pending; a timeout is set only after the one set before it was cleared.
C20_SinglePendingTimer ==
  /\ Cardinality(timers) <= 1
  /\ stateDebounceTimer = NULL <=> timers = {}
  /\ \A t \in timers : t.id = stateDebounceTimer
  /\ ArmedAfterCancel

\* Two sessions were 'speaking' and speech-end came: the first session's
\* timeout was set and cleared, the second's was set and is the one pending.
C20_Witness ==
  /\ op = "speech-end"
  /\ Cardinality(timers) = 1
  /\ \E i, j, k \in 1..Len(calls) :
       /\ i < k /\ k < j
       /\ calls[i].kind = "setTimeout"
       /\ calls[k] = ClearCall(calls[i].num)
       /\ calls[j] = SetCall(2, stateDebounceTimer)

\* ------------------------------------------------------ BarsTheme's actions
\* The browser runs a requested frame: animate, which requests the next one.
BarsFrame ==
  /\ barsFrames < MaxBarFrames
  /\ \E f \in barsPending :
       LET rest == barsPending \ {f}
           id == FreshFrameId(rest)
       IN /\ barsPending' = rest \cup {[f EXCEPT !.id = id]}
          /\ barsRaf' = id
          /\ IF Active(f.state)
             THEN \E rnd \in [Bars -> RandSet(f.state)] :
                    smoothed' = [i \in Bars |-> BarStep(smoothed[i], BarTarget(f.vol, i, rnd[i]))]
             ELSE smoothed' = smoothed
  /\ barsFrames' = barsFrames + 1
  /\ barsOp' = "frame"
  /\ UNCHANGED <<barsState, barsVolume, barsChanges, adapterVars, orbVars, condVars, circleVars>>

\* The theme is rendered with other props: the cleanup of the old effect runs
\* when it had a loop, then the effect of the new props.
BarsRender(st, vol) ==
  /\ barsChanges < MaxPropChanges
  /\ <<st, vol>> # <<barsState, barsVolume>>
  /\ LET cleaned == IF Looping(barsState) THEN CancelFrame(barsPending, barsRaf) ELSE barsPending
         eff == BarsEffect(cleaned, barsRaf, st, vol)
     IN /\ barsPending' = eff.frames
        /\ barsRaf' = eff.raf
  /\ barsState' = st
  /\ barsVolume' = vol
  /\ barsChanges' = barsChanges + 1
  /\ UNCHANGED <<smoothed, barsFrames, adapterVars, orbVars, condVars, circleVars>>

BarsSetState(st) ==
  /\ st # barsState
  /\ BarsRender(st, barsVolume)
  /\ barsOp' = "state"

BarsSetVolume(vol) ==
  /\ vol # barsVolume
  /\ BarsRender(barsState, vol)
  /\ barsOp' = "volume"

InitBars ==
  /\ AdapterInit
  /\ OrbMounted(NoProps)
  /\ ConditionerAt(0)
  /\ CircleMounted("idle", 0, NULL)
  /\ \E st \in OrbState, vol \in BarsVolumes : BarsMounted(st, vol)

NextBars ==
  \/ BarsFrame
  \/ \E st \in OrbState : BarsSetState(st)
  \/ \E vol \in BarsVolumes : BarsSetVolume(vol)

\* The bars theme with a parent that sets its props and a browser that runs frames.
SpecBars == InitBars /\ [][NextBars]_vars

\* ------------------------------------------- volume levels within [0, 1]
\* Raw provider volume samples within [0, 1]: one below the noise floor and
\* one at the top.
UnitSamples == {100, SCALE}

\* A volume-level event with such a sample.
UnitVolumeLevel(raw) == VolumeLevelUpTo(raw, MaxUnitEvents)

NextVolume ==
  \/ \E s \in Sessions : Subscribe(s)
  \/ \E s \in Sessions : Unsubscribe(s)
  \/ \E raw \in UnitSamples : UnitVolumeLevel(raw)
  \/ SpeechStart
  \/ SpeechEnd
  \/ Timeout
  \/ Tick

\* The adapter with its sessions, speech events, the timer, and volume-level
\* events within [0, 1].
SpecVolume == Init /\ [][NextVolume]_vars

\* ------------------------------------------------------------------- C21
\* C21: no step takes a consumer whose last emitted state is 'disconnected'
\* or 'error' to 'speaking' or 'thinking'; it leaves those states only
\* through 'connecting' or 'listening'.
C21_TerminalStatesNeedNewSession ==
  [][ \A s \in Sessions :
        (lastEmitted[s] \in {"disconnected", "error"} /\ lastEmitted'[s] # lastEmitted[s]) =>
          lastEmitted'[s] \in {"connecting", "listening", "disconnected", "error"}
    ]_vars

\* ------------------------------------------------------------------- C22
\* C22: a timeout set for a subscription in the last step is still pending
\* when the step is over: handling the same event for the other subscription
\* has neither cleared nor replaced it.
C22_DebounceIsolation ==
  \A s \in Sessions :
    (\E i \in 1..Len(calls) : calls[i].kind = "setTimeout" /\ calls[i].sub = s) =>
      \E t \in timers : t.owner = s /\ t.next = "listening"

\* ------------------------------------------------------------------- C23
\* C23: two subscriptions A then B were made; once one or both of them have
\* been unsubscribed, in either order, client.start runs the wrapper of
\* exactly those still subscribed: of neither when both are gone, of the
\* remaining one when one is left.
C23_StartRestoredAfterOverlap ==
  (/\ subscribed[1] # "none"
   /\ subscribed[2] # "none"
   /\ \E s \in {1, 2} : subscribed[s] = "closed") =>
    \A s \in {1, 2} : s \in StartChain(clientStart) <=> subscribed[s] = "active"

\* ------------------------------------------------------------------- C24
\* C24: a volume-level event with a raw sample r within [0, 1] runs
\* normalizeVapiVolume once: from the prior p = emaVol it stores
\* p + (g - p) * rate as the new emaVol, with g the gated sample and rate
\* 0.65 when g > p and 0.12 otherwise, and that value is what every
\* subscriber's onVolumeChange is handed.
C24_OncePerVolumeEvent ==
  [][ op' = "volume-level" =>
        \E r \in UnitSamples :
          LET g == IF r < NOISE_FLOOR THEN 0
                   ELSE ((r - NOISE_FLOOR) * SCALE) \div (SCALE - NOISE_FLOOR)
              rate == IF g > emaVol THEN ATTACK_PCT ELSE RELEASE_PCT
              out == emaVol + ((g - emaVol) * rate) \div 100
          IN /\ emaVol' = out
             /\ \A i \in 1..Len(calls') :
                  calls'[i].kind = "onVolumeChange" => calls'[i].num = out
    ]_vars

\* ------------------------------------------------------------------- C25
\* C25: under the peak-hold strategy a frame that finds the volume at or
\* above the peak sets the peak to the volume and the hold counter to 8; a
\* frame that finds it below leaves the peak unchanged when it is one of the
\* first 8 such frames in a row, and from the 9th on moves the peak toward
\* the volume by 0.09 of the gap; after every frame the hold counter is in
\* 0..8 and the peak is at or above the volume.
C25_PeakHold ==
  [][ (circleOp' = "frame" /\ StrategyOf(orbStrategy) = 4) =>
        /\ volumeRef >= peakVol => (peakVol' = volumeRef /\ peakHoldFrames' = HOLD_FRAMES)
        /\ (volumeRef < peakVol /\ framesBelow < HOLD_FRAMES) => peakVol' = peakVol
        /\ (volumeRef < peakVol /\ framesBelow >= HOLD_FRAMES) =>
             peakVol' = peakVol - MulRound(peakVol - volumeRef, DECAY_PCT, 100)
        /\ peakHoldFrames' \in 0..HOLD_FRAMES
        /\ peakVol' >= volumeRef
    ]_vars

\* The 9th frame in a row below the peak has lowered it, and it is still
\* above the volume.
C25_Witness ==
  /\ circleOp = "frame"
  /\ orbStrategy = 4
  /\ framesBelow = HOLD_FRAMES + 1
  /\ prevRefs.hold = 0
  /\ peakVol < prevRefs.peak
  /\ peakVol > volumeRef

\* ------------------------------------------------------------------- C26
\* C26: in every state other than 'listening' and 'speaking' the bars
\* theme's smoothed heights are at rest (the 0 they are created with, or the
\* minimum height), so the next 'listening' or 'speaking' starts from rest.
C26_BarsReset ==
  ~Active(barsState) => \A i \in Bars : smoothed[i] \in {0, MinH}

\* ------------------------------------------------------------------- C27
\* C27: a speech-end that finds a subscription's last emitted state
\* 'speaking' holds 'listening' for it again and delivers nothing to it; the
\* timeout that was pending is cleared, and the timeout pending afterwards
\* has its full 350 ms to run, so speech-ends less than 350 ms apart never
\* let 'listening' out; a timeout delivers 'listening' only when 350 ms
\* have passed since it was set.
C27_ReArming ==
  [][ /\ op' = "speech-end" =>
           /\ \A i \in 1..Len(listeners) :
                lastEmitted[listeners[i]] = "speaking" =>
                  /\ Len(Requests(calls', listeners[i])) = 1
                  /\ Requests(calls', listeners[i])[1].kind = "setTimeout"
                  /\ lastEmitted'[listeners[i]] = "speaking"
           /\ \A t \in timers : \E i \in 1..Len(calls') : calls'[i] = ClearCall(t.id)
           /\ \A t \in timers' : t.elapsed = 0
           /\ lastEmitted[listeners[Len(listeners)]] = "speaking" =>
                \E t \in timers' : /\ t.owner = listeners[Len(listeners)]
                                   /\ t.next = "listening"
                                   /\ t.id = stateDebounceTimer'
      /\ op' = "timeout" =>
           \A t \in timers \ timers' :
             /\ t.elapsed >= DEBOUNCE_MS
             /\ calls'[Len(calls')] = StateCall(t.owner, "listening")
    ]_vars

\* A speech-end found a 'listening' held: its timeout was cleared and a new
\* one set, and the consumer is still 'speaking'.
C27_Witness ==
  /\ op = "speech-end"
  /\ listeners = <<1>>
  /\ calls = <<ClearCall(1), SetCall(1, 1), VolumeCall(1, 0)>>
  /\ lastEmitted[1] = "speaking"
  /\ timers = {[id |-> 1, owner |-> 1, next |-> "listening", elapsed |-> 0]}

\* ------------------------------------------------------------------- C28
\* The volumes handed to session s's onVolumeChange among the calls cs.
VolumesGiven(cs, s) ==
  SelectSeq(cs, LAMBDA c : c.kind = "onVolumeChange" /\ c.sub = s)

\* C28: a speech-end hands every subscriber volume 0 in the same step,
\* whether its 'listening' is delivered or held, and leaves emaVol as it
\* was; the volume-level event after it is smoothed from that emaVol.
C28_ZeroingNotDebounced ==
  [][ /\ op' = "speech-end" =>
           /\ \A i \in 1..Len(listeners) :
                VolumesGiven(calls', listeners[i]) = <<VolumeCall(listeners[i], 0)>>
           /\ emaVol' = emaVol
      /\ (op = "speech-end" /\ op' = "volume-level") =>
           \E r \in UnitSamples :
             VolumesGiven(calls', listeners[1]) =
               <<VolumeCall(listeners[1], NormalizeVapiVolume(emaVol, r))>>
    ]_vars

\* A speech-end after a loud sample: the consumer is handed volume 0 while
\* its 'listening' is held and its state is still 'speaking'; emaVol keeps
\* the smoothed sample and a further volume-level event can follow.
C28_Witness ==
  /\ op = "speech-end"
  /\ listeners = <<1>>
  /\ calls = <<SetCall(1, 1), VolumeCall(1, 0)>>
  /\ lastEmitted[1] = "speaking"
  /\ emaVol = (SCALE * ATTACK_PCT) \div 100
  /\ volumeEvents < MaxUnitEvents

\* ------------------------------------------------------------------- C29
\* C29: after every step of the circle theme at most one frame is pending;
\* one is pending only in 'listening' or 'speaking', and it is the frame of
\* that state that rafRef names; a volume update writes volumeRef and leaves
\* the pending frame, rafRef and the refs as they were; a frame computes
\* from the volume last written, which it leaves in place for the next.
C29_SingleFrameLoop ==
  [][ /\ Cardinality(pendingFrames') <= 1
      /\ \A f \in pendingFrames' :
           Active(circleState') /\ f.state = circleState' /\ f.id = rafRef'
      /\ circleOp' = "volume" =>
           /\ pendingFrames' = pendingFrames
           /\ rafRef' = rafRef
           /\ Refs' = Refs
      /\ circleOp' = "frame" =>
           /\ volumeRef' = volumeRef
           /\ Refs' = Animate(Refs, StrategyOf(orbStrategy), circleState, volumeRef)
           /\ StrategyOf(orbStrategy) = 3 =>
                currentScale' = Base(circleState) + MulRound(volumeRef, Range(circleState), SCALE)
    ]_vars

\* The second frame in a row after a volume update read the same volume
\* again: under the direct strategy the scale is that volume's, unchanged.
C29_Witness ==
  /\ circleOp = "frame"
  /\ orbStrategy = 3
  /\ circleState = "speaking"
  /\ propChanges > 0
  /\ volumeRef = SCALE
  /\ framesSince = 2
  /\ Refs = prevRefs
  /\ currentScale = SPEAK_BASE + SPEAK_RANGE
  /\ Cardinality(pendingFrames) = 1

\* ------------------------------------------------------------------- C30
\* C30: a call-end, an error and an unsubscribe each leave
\* latestAudioStream null and the track of the stream it named stopped if
\* it was live; the track of every other stream, an earlier audio stream
\* among them, is left as it was.
C30_MicRelease ==
  [][ op' \in {"call-end", "error", "unsubscribe"} =>
        /\ latestAudioStream' = NULL
        /\ \A k \in Streams :
             trackState'[k] = IF k = latestAudioStream /\ trackState[k] = "live"
                              THEN "ended" ELSE trackState[k]
    ]_vars

\* After a call-end the first stream's track is still live and the second's,
\* captured later, has ended.
C30_Witness ==
  /\ op = "call-end"
  /\ latestAudioStream = NULL
  /\ trackState[1] = "live"
  /\ trackState[2] = "ended"

====
